---------------------------- MODULE Spec2Model ----------------------------
(***************************************************************************)
(* Model of the GIS service's project geodata store                        *)
(* (src/backend/gis_service/main.py): the GeoDataStorage class with its    *)
(* in-memory cache `projects` and its one-file-per-project directory, and  *)
(* the request handlers that use it.  Handlers are asyncio coroutines: a   *)
(* handler runs without interruption up to an `await` on file I/O, so      *)
(* every action below is one such uninterrupted stretch of a handler.      *)
(*                                                                         *)
(* Python objects are references.  load_project_geodata returns the very   *)
(* object the cache holds, and add_project_point / add_project_polygon     *)
(* append to the object they were given, so aggregates live in a heap and  *)
(* the cache and the handlers' locals hold object ids.                     *)
(***************************************************************************)
EXTENDS Integers, Sequences, FiniteSets, TLC

(***************************************************************************)
(* Bounds of the model.                                                    *)
(***************************************************************************)
\* most members (points + polygons + lines) an aggregate is grown to
MaxMembers == 2

\* bits of a float's significand (53 in the program's doubles): a number
\* that needs more is rounded to the nearest that does not
MantissaBits == 8

(***************************************************************************)
(* Optional values: None is <<>>, a present value v is <<v>>.              *)
(***************************************************************************)
None == <<>>
Some(v) == <<v>>
IsSome(o) == Len(o) = 1
Get(o) == o[1]

Abs(x) == IF x < 0 THEN -x ELSE x

RECURSIVE GCD(_, _)
GCD(a, b) == IF b = 0 THEN a ELSE GCD(b, a % b)

\* The float n / d (d > 0), kept exactly as a fraction in lowest terms: an
\* IEEE division is correctly rounded, so two quotients are the same float
\* when they are the same fraction (the integers here are small).
Rat(n, d) ==
  LET g == GCD(Abs(n), d)
  IN  [num |-> n \div g, den |-> d \div g]

RatAbs(r) == [num |-> Abs(r.num), den |-> r.den]

(***************************************************************************)
(* Floats.  The numbers of the model are whole, so a float is an integer   *)
(* of at most MantissaBits significant bits times a power of two, and the  *)
(* result of + - * is the exact result rounded to the nearest such number, *)
(* a tie going to the even significand.                                    *)
(***************************************************************************)
\* the spacing of the floats around x >= 0
RECURSIVE Ulp(_, _)
Ulp(x, u) == IF x < (2 ^ MantissaBits) * u THEN u ELSE Ulp(x, 2 * u)

RoundFloat(x) ==
  LET m == Abs(x)
      u == Ulp(m, 1)
      q == m \div u
      r == m % u
      up == 2 * r > u \/ (2 * r = u /\ q % 2 = 1)
      n == (IF up THEN q + 1 ELSE q) * u
  IN  IF x < 0 THEN -n ELSE n

FloatAdd(x, y) == RoundFloat(x + y)
FloatSub(x, y) == RoundFloat(x - y)
FloatMul(x, y) == RoundFloat(x * y)

(***************************************************************************)
(* Data models.  `created_at` is a datetime in every member (it has a      *)
(* default factory and is not Optional), which is what decides JsonDumps   *)
(* below; the other fields that no handler reads are left out.  The        *)
(* constructors give `properties` its default, the empty dict.             *)
(***************************************************************************)
Coordinates(lat, lon) == [latitude |-> lat, longitude |-> lon]

\* Field(..., ge=-90, le=90) and Field(..., ge=-180, le=180)
MaxLatitude == 90
MaxLongitude == 180

\* a validation that lets every value pass: not what the code does
AnyCoordinates(c) == TRUE

\* the validation of Coordinates(latitude=..., longitude=...): the object
\* is built or ValidationError is raised
ValidCoordinates(c) ==
  /\ c.latitude >= -MaxLatitude /\ c.latitude <= MaxLatitude
  /\ c.longitude >= -MaxLongitude /\ c.longitude <= MaxLongitude

\* the validation of the models that hold Coordinates: GeoPolygon and
\* GeoLine put no condition on how many coordinates there are
ValidPoint(pt) == ValidCoordinates(pt.coordinates)

ValidPolygon(poly) ==
  \A r \in 1..Len(poly.coordinates) :
    \A i \in 1..Len(poly.coordinates[r]) :
      ValidCoordinates(poly.coordinates[r][i])

ValidLine(ln) ==
  \A i \in 1..Len(ln.coordinates) : ValidCoordinates(ln.coordinates[i])

ValidProjectGeoData(g) ==
  /\ \A i \in 1..Len(g.points) : ValidPoint(g.points[i])
  /\ \A i \in 1..Len(g.polygons) : ValidPolygon(g.polygons[i])
  /\ \A i \in 1..Len(g.lines) : ValidLine(g.lines[i])

\* a dict with string keys is a function; {} is the function of no key
NoProperties == <<>>

\* {**base, **extra}: a key of extra takes the place of the same key of base
Merge(base, extra) ==
  [k \in DOMAIN base \cup DOMAIN extra |->
     IF k \in DOMAIN extra THEN extra[k] ELSE base[k]]

GeoPoint(id, c) == [id |-> id, coordinates |-> c, properties |-> NoProperties]

GeoPolygon(id, rings, area) ==
  [id |-> id, coordinates |-> rings, area_sqm |-> area,
   properties |-> NoProperties]

GeoLine(id, cs, len) ==
  [id |-> id, coordinates |-> cs, length_m |-> len,
   properties |-> NoProperties]

ProjectGeoData(pid, pts, polys, lns, b, c) ==
  [project_id |-> pid, points |-> pts, polygons |-> polys, lines |-> lns,
   bounds |-> b, center |-> c]

\* ProjectGeoData(project_id=project_id): every other field at its default
NewProjectGeoData(pid) == ProjectGeoData(pid, <<>>, <<>>, <<>>, None, None)

NumMembers(g) == Len(g.points) + Len(g.polygons) + Len(g.lines)

(***************************************************************************)
(* GeometryService.                                                        *)
(***************************************************************************)
RECURSIVE SumLat(_)
SumLat(cs) == IF cs = <<>> THEN 0 ELSE Head(cs).latitude + SumLat(Tail(cs))

RECURSIVE SumLon(_)
SumLon(cs) == IF cs = <<>> THEN 0 ELSE Head(cs).longitude + SumLon(Tail(cs))

RECURSIVE MaxOf(_)
MaxOf(s) ==
  IF Len(s) = 1 THEN s[1]
  ELSE LET m == MaxOf(Tail(s)) IN IF s[1] > m THEN s[1] ELSE m

RECURSIVE MinOf(_)
MinOf(s) ==
  IF Len(s) = 1 THEN s[1]
  ELSE LET m == MinOf(Tail(s)) IN IF s[1] < m THEN s[1] ELSE m

Lats(cs) == [i \in 1..Len(cs) |-> cs[i].latitude]
Lons(cs) == [i \in 1..Len(cs) |-> cs[i].longitude]

\* haversine_distance: R * 2 * atan2(sqrt(a), sqrt(1 - a)).  The float is a
\* function of sin(dlat/2)^2, sin(dlon/2)^2 and cos(lat1) * cos(lat2), kept
\* here as the arguments that fix them (sin is odd and squared, cos is even
\* and a float product does not depend on the order of its factors);
\* a = 0 (same place) gives 0.0.
ZeroDistance == [dlat |-> 0, dlon |-> 0, lats |-> <<>>]

haversine_distance(lat1, lon1, lat2, lon2) ==
  IF lat1 = lat2 /\ lon1 = lon2 THEN ZeroDistance
  ELSE [dlat |-> Abs(lat2 - lat1), dlon |-> Abs(lon2 - lon1),
        lats |-> IF Abs(lat1) <= Abs(lat2) THEN <<Abs(lat1), Abs(lat2)>>
                 ELSE <<Abs(lat2), Abs(lat1)>>]

\* Lines 241-243.  For two places opposite each other on the globe a is 1
\* in exact arithmetic: sin(lat)^2 + cos(lat)^2.  The float sum is
\* 1.0000000000000002 for some of them (with doubles and the C library's
\* sin and cos, at whole degrees: these latitudes), and then
\* math.sqrt(1 - a) raises ValueError: math domain error.
AboveOneLatitudes == {8, 12, 82}

HaversineRaises(lat1, lon1, lat2, lon2) ==
  /\ lat2 = -lat1 /\ Abs(lon2 - lon1) = MaxLongitude
  /\ Abs(lat1) \in AboveOneLatitudes

\* calculate_line_length calls haversine_distance for each segment
LineLengthRaises(cs) ==
  \E i \in 1..(Len(cs) - 1) :
    HaversineRaises(cs[i].latitude, cs[i].longitude,
                    cs[i + 1].latitude, cs[i + 1].longitude)

\* the loop of calculate_polygon_area from index i on, `area` being the sum
\* so far: area += lon[i] * lat[j]; area -= lon[j] * lat[i], in floats
RECURSIVE Shoelace(_, _, _)
Shoelace(cs, i, area) ==
  IF i > Len(cs) THEN area
  ELSE LET j == (i % Len(cs)) + 1
       IN  Shoelace(cs, i + 1,
                    FloatSub(FloatAdd(area, FloatMul(cs[i].longitude,
                                                     cs[j].latitude)),
                             FloatMul(cs[j].longitude, cs[i].latitude)))

\* The float abs(area)/2 * 111320^2 * cos(radians(avg_lat)), kept as the two
\* quantities that fix it: |shoelace sum| and |avg_lat| (cos is even).
ZeroArea == [twice |-> 0, avg_lat |-> Rat(0, 1)]

calculate_polygon_area(cs) ==
  IF Len(cs) < 3 THEN ZeroArea
  ELSE LET twice == Abs(Shoelace(cs, 1, 0))
       IN  IF twice = 0 THEN ZeroArea
           ELSE [twice |-> twice,
                 avg_lat |-> RatAbs(Rat(SumLat(cs), Len(cs)))]

\* calculate_line_length: the haversine terms in the order they are added
\* (terms that are 0.0 do not change the sum); 0.0 is the empty sum.
RECURSIVE calculate_line_length(_)
calculate_line_length(cs) ==
  IF Len(cs) < 2 THEN <<>>
  ELSE LET d == haversine_distance(cs[1].latitude, cs[1].longitude,
                                   cs[2].latitude, cs[2].longitude)
       IN  (IF d = ZeroDistance THEN <<>> ELSE <<d>>)
             \o calculate_line_length(Tail(cs))

\* calculate_bounds: the dict {} (the empty function) for no coordinates
calculate_bounds(cs) ==
  IF cs = <<>> THEN <<>>
  ELSE [north |-> MaxOf(Lats(cs)), south |-> MinOf(Lats(cs)),
        east |-> MaxOf(Lons(cs)), west |-> MinOf(Lons(cs))]

\* calculate_center: a Coordinates whose fields are the float averages
calculate_center(cs) ==
  IF cs = <<>> THEN Coordinates(Rat(0, 1), Rat(0, 1))
  ELSE Coordinates(Rat(SumLat(cs), Len(cs)), Rat(SumLon(cs), Len(cs)))

(***************************************************************************)
(* GeocodingService.geocode_address and the GeocodeRequest it is given.    *)
(***************************************************************************)
\* limit: int = Field(1, ge=1, le=10)
MaxLimit == 10

ValidGeocodeRequest(limit) == limit >= 1 /\ limit <= MaxLimit

\* the addresses that callers send, and those of them in which
\* `"москва" in address.lower() or "moscow" in address.lower()` holds
AddressSeq == <<"", "Kazan, Baumana 5", "MOSCOW, Tverskaya 1">>
AddressInputs == {AddressSeq[i] : i \in 1..Len(AddressSeq)}
MentionsMoscow(address) == address = AddressSeq[3]

\* the seeds that the interpreter may start with (PYTHONHASHSEED is not set)
HashSeeds == <<1, 2>>

\* hash(address): a str hash is salted with the seed of the process; it is
\* any integer, of either sign, and that of the empty str is 0
StrHash(seed, address) ==
  IF address = "" THEN 0
  ELSE LET i == CHOOSE k \in 1..Len(AddressSeq) : AddressSeq[k] = address
       IN  seed * 1237 - i * 5381

\* the list that geocode_address returns (lines 162-192): one candidate,
\* whatever the limit; x % n of Python is in 0..n-1 for n > 0, as here
geocode_address(seed, address, limit) ==
  LET h == StrHash(seed, address)
  IN  IF MentionsMoscow(address)
      THEN <<[formatted_address |-> <<address, "Moscow", "Russia">>,
              coordinates |->
                [latitude |-> Rat(557558 + (h % 100), 10000),
                 longitude |-> Rat(376176 + (h % 100), 10000)],
              accuracy |-> "street"]>>
      ELSE <<[formatted_address |-> <<address, "Russia">>,
              coordinates |->
                [latitude |-> Rat(5500 + (h % 1000), 100),
                 longitude |-> Rat(3700 + (h % 1000), 100)],
              accuracy |-> "approximate"]>>

(***************************************************************************)
(* save_project_geodata (the POST handler), lines 521-546: the derived     *)
(* fields it sets on the request body before handing it to the storage.    *)
(***************************************************************************)
RECURSIVE Flatten(_)
Flatten(rings) ==
  IF rings = <<>> THEN <<>> ELSE Head(rings) \o Flatten(Tail(rings))

PointCoordinates(pts) == [i \in 1..Len(pts) |-> pts[i].coordinates]

RECURSIVE PolygonCoordinates(_)
PolygonCoordinates(polys) ==
  IF polys = <<>> THEN <<>>
  ELSE Flatten(Head(polys).coordinates) \o PolygonCoordinates(Tail(polys))

RECURSIVE LineCoordinates(_)
LineCoordinates(lns) ==
  IF lns = <<>> THEN <<>>
  ELSE Head(lns).coordinates \o LineCoordinates(Tail(lns))

\* all_coordinates: every point, every ring of every polygon, every line
AllCoordinates(g) ==
  PointCoordinates(g.points) \o PolygonCoordinates(g.polygons)
    \o LineCoordinates(g.lines)

\* `if polygon.coordinates and polygon.coordinates[0]:`
HasExteriorRing(poly) ==
  poly.coordinates # <<>> /\ poly.coordinates[1] # <<>>

\* polygon.area_sqm = calculate_polygon_area(polygon.coordinates[0]), guarded
WithArea(poly) ==
  IF HasExteriorRing(poly)
  THEN [poly EXCEPT !.area_sqm = Some(calculate_polygon_area(poly.coordinates[1]))]
  ELSE poly

\* line.length_m = calculate_line_length(line.coordinates)
WithLength(ln) ==
  [ln EXCEPT !.length_m = Some(calculate_line_length(ln.coordinates))]

\* `if all_coordinates:` bounds and center are set, else left as they came
WithBoundsAndCenter(g) ==
  IF AllCoordinates(g) # <<>>
  THEN [g EXCEPT !.bounds = Some(calculate_bounds(AllCoordinates(g))),
                 !.center = Some(calculate_center(AllCoordinates(g)))]
  ELSE g

Recompute(pid, body) ==
  WithBoundsAndCenter(
    [body EXCEPT !.project_id = pid,
                 !.polygons = [i \in 1..Len(body.polygons) |->
                                 WithArea(body.polygons[i])],
                 !.lines = [i \in 1..Len(body.lines) |->
                              WithLength(body.lines[i])]])

(***************************************************************************)
(* export_project_geodata, lines 608-671: the GeoJSON feature collection.  *)
(***************************************************************************)
\* the same place the other way round: not what the code does
LatLon(c) == <<c.latitude, c.longitude>>

\* [coord.longitude, coord.latitude]
Position(c) == <<c.longitude, c.latitude>>

Positions(cs) == [i \in 1..Len(cs) |-> Position(cs[i])]

PointFeature(pt) ==
  [type |-> "Feature",
   geometry |-> [type |-> "Point", coordinates |-> Position(pt.coordinates)],
   properties |-> Merge([id |-> pt.id], pt.properties)]

PolygonFeature(poly) ==
  [type |-> "Feature",
   geometry |-> [type |-> "Polygon",
                 coordinates |-> [r \in 1..Len(poly.coordinates) |->
                                    Positions(poly.coordinates[r])]],
   properties |-> Merge([id |-> poly.id, area_sqm |-> poly.area_sqm],
                        poly.properties)]

LineFeature(ln) ==
  [type |-> "Feature",
   geometry |-> [type |-> "LineString",
                 coordinates |-> Positions(ln.coordinates)],
   properties |-> Merge([id |-> ln.id, length_m |-> ln.length_m],
                        ln.properties)]

\* the dict returned for format geojson; center is geodata.center.dict()
ToGeoJson(project_id, g) ==
  [type |-> "FeatureCollection",
   features |-> [i \in 1..Len(g.points) |-> PointFeature(g.points[i])]
                  \o [i \in 1..Len(g.polygons) |->
                        PolygonFeature(g.polygons[i])]
                  \o [i \in 1..Len(g.lines) |-> LineFeature(g.lines[i])],
   properties |-> [project_id |-> project_id, bounds |-> g.bounds,
                   center |-> g.center]]

\* the names a caller gives as `format`, and format.lower() on them
FormatNames == {"geojson", "GeoJSON", "kml"}

\* a comparison of the name as it was given: not what the code does
AsGiven(format) == format

Lower(format) == IF format = "GeoJSON" THEN "geojson" ELSE format

(***************************************************************************)
(* The durable record: what json.dumps(geodata.dict()) and json.loads do.  *)
(***************************************************************************)
\* json.dumps(data) is called with no `default`: a datetime in the dict
\* raises TypeError.  geodata.dict() keeps each member's created_at as a
\* datetime, so the dict of an aggregate with any member cannot be dumped;
\* the dict of a memberless aggregate can.
JsonDumps(data) == IF NumMembers(data) > 0 THEN None ELSE Some(data)

\* data = geodata.dict() (line 338) is a copy made when save is called, and
\* line 342 dumps that copy: what the dump will give is fixed then.  The
\* handler's local holds it: the text, or None for the TypeError to come.
Dict(geodata) == JsonDumps(geodata)

Absent == [kind |-> "absent", data |-> None]
Truncated == [kind |-> "empty", data |-> None]
Partial == [kind |-> "partial", data |-> None]
JsonFile(data) == [kind |-> "json", data |-> Some(data)]

\* an unlink that is not guarded by exists(): not what the code does
FileAssumed(f, p) == TRUE

\* file_path.exists()
FileExists(f, p) == f[p].kind # "absent"

\* a load that answers an unreadable text with an empty aggregate: not what
\* the code does
ParseOrDefault(content) ==
  IF content.kind = "json"
  THEN LET d == Get(content.data)
       IN  Some(ProjectGeoData(d.project_id, d.points, d.polygons, d.lines,
                               d.bounds, d.center))
  ELSE Some(ProjectGeoData("", <<>>, <<>>, <<>>, None, None))

\* ProjectGeoData(**json.loads(text)): json.loads raises on an empty or cut
\* text; the extra key updated_at is ignored by the model class.
ParseProject(content) ==
  IF content.kind = "json"
  THEN LET d == Get(content.data)
       IN  Some(ProjectGeoData(d.project_id, d.points, d.polygons, d.lines,
                               d.bounds, d.center))
  ELSE None

(***************************************************************************)
(* Inputs of the requests.                                                 *)
(***************************************************************************)
ProjectSeq == <<"A", "B">>
TaskSeq == <<"t1", "t2">>
ProjectIds == {ProjectSeq[i] : i \in 1..Len(ProjectSeq)}
Tasks == {TaskSeq[i] : i \in 1..Len(TaskSeq)}

\* derived values as a caller may send them: not what the engine computes
StaleArea == [twice |-> 7, avg_lat |-> Rat(0, 1)]
StaleLength == <<[dlat |-> 9, dlon |-> 9, lats |-> {}]>>
StaleBounds == [north |-> 9, south |-> 8, east |-> 9, west |-> 8]
StaleCenter == Coordinates(Rat(9, 1), Rat(9, 1))

Triangle == <<Coordinates(0, 0), Coordinates(0, 4), Coordinates(4, 0)>>

PointInputs ==
  {GeoPoint("p1", Coordinates(2, 4)), GeoPoint("p2", Coordinates(-6, 8))}

\* a point whose free-form properties have a key "id" of their own
TaggedPoint ==
  [GeoPoint("p3", Coordinates(1, 3)) EXCEPT !.properties = [id |-> "other"]]

\* a point that is not on the globe
FarPoint == GeoPoint("p4", Coordinates(91, 0))

\* a polygon whose one ring has two coordinates
ShortRingPolygon ==
  GeoPolygon("g4", <<<<Coordinates(0, 0), Coordinates(0, 1)>>>>, None)

PolygonInputs ==
  {GeoPolygon("g1", <<Triangle>>, Some(StaleArea)),
   GeoPolygon("g2", <<>>, Some(StaleArea)), ShortRingPolygon}

\* request bodies of POST /projects/{id}/geodata (the project_id of a body
\* is overwritten by the path's): with no members and no derived fields,
\* with no members and derived fields sent along, ...
EmptyBody == ProjectGeoData("", <<>>, <<>>, <<>>, None, None)

StaleBody ==
  ProjectGeoData("", <<>>, <<>>, <<>>, Some(StaleBounds), Some(StaleCenter))

\* ... and with members of every kind, one polygon with no ring, and
\* derived fields sent along
FullBody ==
  ProjectGeoData("", <<GeoPoint("p1", Coordinates(2, 4))>>,
                 <<GeoPolygon("g1", <<Triangle>>, Some(StaleArea)),
                   GeoPolygon("g2", <<>>, Some(StaleArea))>>,
                 <<GeoLine("l1", <<Coordinates(0, 0), Coordinates(0, 2)>>,
                           Some(StaleLength))>>,
                 Some(StaleBounds), Some(StaleCenter))

\* ... and with one polygon that has a hole
Square ==
  <<Coordinates(0, 0), Coordinates(0, 6), Coordinates(6, 6), Coordinates(6, 0)>>

Hole == <<Coordinates(1, 1), Coordinates(1, 2), Coordinates(2, 1)>>

HoleBody ==
  ProjectGeoData("", <<>>, <<GeoPolygon("g3", <<Square, Hole>>, None)>>, <<>>,
                 None, None)

\* ... and with one line between two places opposite each other on the globe
AntipodalBody ==
  ProjectGeoData("", <<>>, <<>>,
                 <<GeoLine("l2", <<Coordinates(8, -180), Coordinates(-8, 0)>>,
                           None)>>,
                 None, None)

SaveInputs == {EmptyBody, StaleBody, FullBody, HoleBody, AntipodalBody}

\* the places between which callers ask the distance: two of them are
\* opposite each other on the globe
PlaceInputs ==
  {Coordinates(0, 0), Coordinates(2, 4), Coordinates(8, -180),
   Coordinates(-8, 0), Coordinates(-45, 90), Coordinates(90, 180)}

\* most coordinates of a ring or a sequence that callers send
MaxRing == 3

\* the places that rings and sequences are made of
RingPlaces ==
  {Coordinates(1, 3), Coordinates(60, 170), Coordinates(-45, 90)}

RingInputs == UNION {[1..n -> RingPlaces] : n \in 0..MaxRing}

\* the limits that callers of /geocode send
LimitInputs == {0, 1, 3, MaxLimit, MaxLimit + 1}

\* the point that the client behind task t adds
OwnPoint(t) == {pt \in PointInputs : (pt.id = "p1") = (t = TaskSeq[1])}

\* What the clients of a run send.  Two handlers at a time, interleaved at
\* their awaits, on one project, each client adding a point of its own:
ConcurrentClients ==
  [tasks |-> Tasks, projects |-> [t \in Tasks |-> {ProjectSeq[1]}],
   points |-> [t \in Tasks |-> OwnPoint(t)],
   polygons |-> {GeoPolygon("g1", <<Triangle>>, Some(StaleArea))},
   bodies |-> {StaleBody}, formats |-> {"geojson"},
   seeds |-> {HashSeeds[1]}, followed |-> {}]

\* one request at a time, every input:
SerialClients ==
  [tasks |-> {TaskSeq[1]}, projects |-> [t \in Tasks |-> {ProjectSeq[1]}],
   points |-> [t \in Tasks |-> PointInputs \cup {TaggedPoint, FarPoint}],
   polygons |-> PolygonInputs, bodies |-> SaveInputs,
   formats |-> FormatNames, seeds |-> {HashSeeds[1]},
   followed |-> {ProjectSeq[1]}]

\* the project that the client behind task t works on, when each has its own
OwnProject(t) == {ProjectSeq[i] : i \in {j \in 1..Len(TaskSeq) : TaskSeq[j] = t}}

\* two handlers at a time, each on a project of its own:
ProjectsClients ==
  [tasks |-> Tasks, projects |-> [t \in Tasks |-> OwnProject(t)],
   points |-> [t \in Tasks |-> OwnPoint(t)],
   polygons |-> {GeoPolygon("g1", <<Triangle>>, Some(StaleArea))},
   bodies |-> {StaleBody}, formats |-> {"geojson"},
   seeds |-> {HashSeeds[1]}, followed |-> {}]

\* callers of the functions that keep no state, and no request to the
\* store; the process may start with either seed:
GeometryClients ==
  [tasks |-> {}, projects |-> [t \in Tasks |-> {}],
   points |-> [t \in Tasks |-> {}], polygons |-> {}, bodies |-> {},
   formats |-> {}, seeds |-> {HashSeeds[i] : i \in 1..Len(HashSeeds)},
   followed |-> {}]

(***************************************************************************)
(* State.                                                                  *)
(***************************************************************************)
VARIABLES
  projects,    \* GeoDataStorage.projects: project id -> object id, 0 = no key
  files,       \* gis_data/<project id>.json: the file's content
  heap,        \* object id -> the ProjectGeoData object (None: no object)
  task,        \* each request in flight: its handler's position and locals
  clients,     \* what the clients send in this run: fixed at the start
  saved,       \* history: a save of the project wrote its record or
               \*   returned True, and no delete ran since
  last_saved,  \* history: the dict that the last save to write its record,
               \*   or to return True, wrote; None after a delete
  solo,        \* history: no other task took a step on the same project
               \*   since this task's request began
  before,      \* history, kept while solo: the project's cache entry, and
               \*   whether it had no file, or a file that is no record,
               \*   and the record its file held, when this task's request
               \*   began
  prev,        \* history: the save or delete this task completed last with
               \*   success, while no other task took a step on its project
               \*   and this task completed nothing else since
  prior,       \* history, kept while solo: prev as it was when the current
               \*   request completed
  lifecycle,   \* history, for the projects that clients.followed names:
               \*   "present" once a save or an append has returned
               \*   success, "absent" at the start and once a delete has
  hashseed,    \* the seed of str hashes that this process started with
  calc,        \* the last call of a function that keeps no state: its
               \*   arguments and what it returned or raised
  geocoded     \* history: what the first geocoding of each address returned

vars == <<projects, files, heap, task, clients, saved, last_saved, solo,
          before, prev, prior, lifecycle, hashseed, calc, geocoded>>

\* what a handler that uses neither the store nor a hash leaves as it is
stateless == <<hashseed, calc, geocoded>>

\* one object per cache entry and per handler at most
ObjIds == 1..(Len(ProjectSeq) + Len(TaskSeq))

Idle ==
  [pc |-> "idle", op |-> "none", pid |-> "", point |-> None,
   polygon |-> None, geodata |-> 0, text |-> None, content |-> Absent,
   unlinked |-> FALSE, status |-> "none", raised |-> "none",
   format |-> "", response |-> None]

NoPrev == [op |-> "none", pid |-> "", text |-> None]

NoCalc == [op |-> "none", args |-> <<>>, status |-> "none", result |-> None]

\* a call that returned a value, and one that an exception left
Returned(op, args, value) ==
  [op |-> op, args |-> args, status |-> "ok", result |-> Some(value)]

Raised(op, args, e) ==
  [op |-> op, args |-> args, status |-> e, result |-> None]

NoBefore ==
  [cache |-> None, no_file |-> TRUE, unreadable |-> FALSE, record |-> None]

\* the aggregate the cache holds for p, as a value
Cached(c, h, p) == IF c[p] = 0 THEN None ELSE h[c[p]]

\* a new object's id
Alloc(h) == CHOOSE o \in ObjIds : h[o] = None

(***************************************************************************)
(* Object ids carry no meaning: after every step the objects are numbered  *)
(* in the order the cache entries and then the handlers refer to them, and *)
(* an object nothing refers to is gone.                                    *)
(***************************************************************************)
Roots(c, tks) ==
  [i \in 1..(Len(ProjectSeq) + Len(TaskSeq)) |->
     IF i <= Len(ProjectSeq) THEN c[ProjectSeq[i]]
     ELSE tks[TaskSeq[i - Len(ProjectSeq)]].geodata]

\* the new id of object o (0: none)
Rank(r, o) ==
  IF o = 0 THEN 0
  ELSE LET first == CHOOSE i \in DOMAIN r :
                      r[i] = o /\ \A j \in 1..(i - 1) : r[j] # o
       IN  Cardinality({r[j] : j \in 1..first} \ {0})

RenumberedHeap(h, c, tks) ==
  LET r == Roots(c, tks)
  IN  [n \in ObjIds |->
         IF \E i \in DOMAIN r : Rank(r, r[i]) = n
         THEN h[r[CHOOSE i \in DOMAIN r : Rank(r, r[i]) = n]]
         ELSE None]

RenumberedCache(c, tks) ==
  [p \in ProjectIds |-> Rank(Roots(c, tks), c[p])]

RenumberedTasks(c, tks) ==
  [t \in Tasks |-> [tks[t] EXCEPT !.geodata = Rank(Roots(c, tks), @)]]

\* GeoDataStorage.__init__ on an empty gis_data directory
Start ==
  /\ projects = [p \in ProjectIds |-> 0]
  /\ files = [p \in ProjectIds |-> Absent]
  /\ heap = [o \in ObjIds |-> None]
  /\ task = [t \in Tasks |-> Idle]
  /\ saved = [p \in ProjectIds |-> FALSE]
  /\ last_saved = [p \in ProjectIds |-> None]
  /\ solo = [t \in Tasks |-> TRUE]
  /\ before = [t \in Tasks |-> NoBefore]
  /\ prev = [t \in Tasks |-> NoPrev]
  /\ prior = [t \in Tasks |-> NoPrev]
  /\ lifecycle = [p \in ProjectIds |-> "absent"]
  /\ hashseed \in clients.seeds
  /\ calc = NoCalc
  /\ geocoded = [a \in AddressInputs |-> None]

Init == clients = ConcurrentClients /\ Start

InitSerial == clients = SerialClients /\ Start

InitProjects == clients = ProjectsClients /\ Start

InitGeometry == clients = GeometryClients /\ Start

(***************************************************************************)
(* One step of task t on project p: the new locals of every task, heap,    *)
(* cache and files, and the history that follows from them.                *)
(***************************************************************************)
Started(t) == task[t].pc = "idle"
Completed(t, tks) == tks[t].pc = "done" /\ task[t].pc # "done"

Writes == {"save", "point", "polygon"}

\* the lifecycle of the project that task t, now tk, has taken a step on
After(t, tk, was) ==
  IF tk.pc = "done" /\ task[t].pc # "done" /\ tk.status = "ok"
       /\ tk.op \in Writes \cup {"delete"}
  THEN (IF tk.op = "delete" THEN "absent" ELSE "present")
  ELSE was

\* what prev keeps of the request that tks[t] has just completed
Record(tk) ==
  IF tk.status = "ok" /\ tk.op \in {"save", "delete"}
  THEN [op |-> tk.op, pid |-> tk.pid, text |-> tk.text]
  ELSE NoPrev

Step(t, p, tks, h, c, f, sv, ls) ==
  /\ task' = RenumberedTasks(c, tks)
  /\ projects' = RenumberedCache(c, tks)
  /\ heap' = RenumberedHeap(h, c, tks)
  /\ files' = f
  /\ saved' = sv
  /\ last_saved' = ls
  /\ solo' = [u \in Tasks |-> IF u = t THEN Started(t) \/ solo[t]
                              ELSE solo[u] /\ task[u].pid # p]
  /\ before' = [u \in Tasks |->
                  IF u = t
                  THEN (IF Started(t)
                        THEN [cache |-> Cached(projects, heap, p),
                              no_file |-> files[p] = Absent,
                              unreadable |->
                                files[p].kind \in {"empty", "partial"},
                              record |-> files[p].data]
                        ELSE before[t])
                  ELSE IF task[u].pid = p THEN NoBefore ELSE before[u]]
  /\ prev' = [u \in Tasks |->
                IF u = t
                THEN (IF Completed(t, tks) THEN Record(tks[t]) ELSE prev[t])
                ELSE IF prev[u].pid = p THEN NoPrev ELSE prev[u]]
  /\ prior' = [u \in Tasks |->
                 IF u = t
                 THEN (IF Completed(t, tks) THEN prev[t] ELSE prior[t])
                 ELSE IF task[u].pid = p THEN NoPrev ELSE prior[u]]
  /\ lifecycle' = IF p \in clients.followed
                  THEN [lifecycle EXCEPT ![p] = After(t, tks[t], @)]
                  ELSE lifecycle
  /\ UNCHANGED <<clients, stateless>>

\* the step changes only t's locals (and maybe the heap)
Local(t, tk, h) ==
  Step(t, tk.pid, [task EXCEPT ![t] = tk], h, projects, files, saved,
       last_saved)

(***************************************************************************)
(* GeoDataStorage.load_project_geodata and what its callers do with the    *)
(* object it returns, up to their next await.                              *)
(***************************************************************************)
\* geodata.points.append(point)
AppendPoint(g, pt) == [g EXCEPT !.points = Append(@, pt)]

\* polygon.area_sqm = ... (guarded); geodata.polygons.append(polygon)
AppendPolygon(g, poly) == [g EXCEPT !.polygons = Append(@, WithArea(poly))]

\* get_project_geodata, lines 513-515: 404 unless load returned an object,
\* which is the response
Respond(tk, o, h) ==
  [tk |-> [tk EXCEPT !.pc = "done", !.geodata = o,
                     !.status = IF o = 0 THEN "not_found" ELSE "ok"],
   h |-> h]

\* add_project_point / add_project_polygon, lines 569-574 and 585-594: use
\* the object load returned, or a new one; append to it; then the start of
\* storage.save_project_geodata up to its await of aiofiles.open
Modify(tk, o, h) ==
  LET g == IF o = 0 THEN Alloc(h) ELSE o
      old == IF o = 0 THEN NewProjectGeoData(tk.pid) ELSE Get(h[o])
      new == IF tk.op = "point" THEN AppendPoint(old, Get(tk.point))
             ELSE AppendPolygon(old, Get(tk.polygon))
  IN  [tk |-> [tk EXCEPT !.pc = "open", !.geodata = g, !.text = Dict(new)],
       h |-> [h EXCEPT ![g] = Some(new)]]

\* export_project_geodata, lines 605-676: 404 unless load returned an
\* object, 400 unless the format is geojson in any case of letters, else the
\* feature collection
Export(tk, o, h) ==
  [tk |-> [tk EXCEPT
             !.pc = "done", !.geodata = o,
             !.status = IF o = 0 THEN "not_found"
                        ELSE IF Lower(tk.format) = "geojson" THEN "ok"
                        ELSE "unsupported",
             !.response = IF o # 0 /\ Lower(tk.format) = "geojson"
                          THEN Some(ToGeoJson(tk.pid, Get(h[o])))
                          ELSE None],
   h |-> h]

\* load returned object o (0: None) to the handler of tk
AfterLoad(tk, o, h) ==
  IF tk.op = "get" THEN Respond(tk, o, h)
  ELSE IF tk.op = "export" THEN Export(tk, o, h)
  ELSE Modify(tk, o, h)

\* lines 353-360: the cache, then file_path.exists(), then the await of open
BeginLoad(tk) ==
  IF projects[tk.pid] # 0 THEN AfterLoad(tk, projects[tk.pid], heap)
  ELSE IF ~FileExists(files, tk.pid) THEN AfterLoad(tk, 0, heap)
  ELSE [tk |-> [tk EXCEPT !.pc = "read"], h |-> heap]

\* a cache that keeps the entry it has: not what the code does
StoreIfAbsent(c, p, o) == IF c[p] = 0 THEN [c EXCEPT ![p] = o] ELSE c

\* self.projects[project_id] = geodata (lines 344 and 366)
StoreInCache(c, p, o) == [c EXCEPT ![p] = o]

\* a delete that leaves the cache alone: not what the code does
EvictNothing(c, p) == c

\* `if project_id in self.projects: del self.projects[project_id]`
Evict(c, p) == [c EXCEPT ![p] = 0]

\* an unlink that takes every project's file: not what the code does
UnlinkAll(f, p) == [q \in ProjectIds |-> Absent]

\* file_path.unlink(): raises FileNotFoundError when there is no file
UnlinkRaises(f, p) == f[p].kind = "absent"
Unlink(f, p) == [f EXCEPT ![p] = Absent]

\* `except Exception as e` (lines 347 and 385): e is logged, False is
\* returned, the handler answers 500
Fail(tk, e) == [tk EXCEPT !.pc = "done", !.status = "error", !.raised = e]

Begin(op, p, pt, poly) ==
  [Idle EXCEPT !.op = op, !.pid = p, !.point = pt, !.polygon = poly]

(***************************************************************************)
(* The handlers, each from the request to its first await.                 *)
(***************************************************************************)
\* GET /projects/{project_id}/geodata
GetProjectGeodata(t, p) ==
  /\ task[t].pc = "idle"
  /\ LET r == BeginLoad(Begin("get", p, None, None))
     IN  Local(t, r.tk, r.h)

\* the request body does not validate: the answer is 422 and the handler
\* does not run
Reject(tk) == [tk EXCEPT !.pc = "done", !.status = "invalid"]

\* GET /projects/{project_id}/export?format=...
ExportProjectGeodata(t, p, format) ==
  /\ task[t].pc = "idle"
  /\ LET r == BeginLoad([Begin("export", p, None, None) EXCEPT
                          !.format = format])
     IN  Local(t, r.tk, r.h)

\* POST /projects/{project_id}/points
AddProjectPoint(t, p, pt) ==
  /\ task[t].pc = "idle"
  /\ projects[p] # 0 => NumMembers(Get(heap[projects[p]])) < MaxMembers
  /\ IF ValidPoint(pt)
     THEN LET r == BeginLoad(Begin("point", p, Some(pt), None))
          IN  Local(t, r.tk, r.h)
     ELSE Local(t, Reject(Begin("point", p, Some(pt), None)), heap)

\* POST /projects/{project_id}/polygons
AddProjectPolygon(t, p, poly) ==
  /\ task[t].pc = "idle"
  /\ projects[p] # 0 => NumMembers(Get(heap[projects[p]])) < MaxMembers
  /\ IF ValidPolygon(poly)
     THEN LET r == BeginLoad(Begin("polygon", p, None, Some(poly)))
          IN  Local(t, r.tk, r.h)
     ELSE Local(t, Reject(Begin("polygon", p, None, Some(poly))), heap)

\* POST /projects/{project_id}/geodata: the body is a new object; lines
\* 521-546 set its derived fields, then storage.save_project_geodata runs
\* up to its await of aiofiles.open.  A ValueError of calculate_line_length
\* (line 541) leaves the handler: the answer is 500 and nothing is stored.
SaveProjectGeodata(t, p, body) ==
  /\ task[t].pc = "idle"
  /\ IF ~ValidProjectGeoData(body)
     THEN Local(t, Reject(Begin("save", p, None, None)), heap)
     ELSE IF \E i \in 1..Len(body.lines) :
               LineLengthRaises(body.lines[i].coordinates)
     THEN Local(t, Fail(Begin("save", p, None, None), "ValueError"), heap)
     ELSE LET g == Alloc(heap)
              geodata == Recompute(p, body)
              tk == [Begin("save", p, None, None) EXCEPT
                       !.pc = "open", !.geodata = g, !.text = Dict(geodata)]
          IN  Local(t, tk, [heap EXCEPT ![g] = Some(geodata)])

\* DELETE /projects/{project_id}/geodata: nothing in it awaits I/O.  A file
\* that a save has open for writing lives on, unnamed, for that writer.
DeleteProjectGeodata(t, p) ==
  /\ task[t].pc = "idle"
  /\ LET raises == FileExists(files, p) /\ UnlinkRaises(files, p)
         f == IF FileExists(files, p) /\ ~raises THEN Unlink(files, p) ELSE files
         c == IF raises THEN projects ELSE Evict(projects, p)
         tk == IF raises THEN Fail(Begin("delete", p, None, None), "OSError")
               ELSE [Begin("delete", p, None, None) EXCEPT
                       !.pc = "done", !.status = "ok"]
         tks == [u \in Tasks |->
                   IF u = t THEN tk
                   ELSE IF task[u].pid = p /\ task[u].pc \in {"write", "commit"}
                             /\ ~raises
                        THEN [task[u] EXCEPT !.unlinked = TRUE]
                        ELSE task[u]]
     IN  Step(t, p, tks, heap, c, f,
              IF raises THEN saved ELSE [saved EXCEPT ![p] = FALSE],
              IF raises THEN last_saved ELSE [last_saved EXCEPT ![p] = None])

(***************************************************************************)
(* load_project_geodata after its awaits.                                  *)
(***************************************************************************)
\* lines 362-363: open and read the file.  No file by now: open raises, the
\* except returns None.
LoadRead(t) ==
  /\ task[t].pc = "read"
  /\ IF FileExists(files, task[t].pid)
     THEN Local(t, [task[t] EXCEPT !.pc = "parse",
                                   !.content = files[task[t].pid]], heap)
     ELSE LET r == AfterLoad(task[t], 0, heap) IN Local(t, r.tk, r.h)

\* lines 363-371, after the file is closed: the text parsed (or the except),
\* the cache filled, and the caller's code up to its next await
LoadFinish(t) ==
  /\ task[t].pc = "parse"
  /\ LET tk == [task[t] EXCEPT !.content = Absent]
         parsed == ParseProject(task[t].content)
         g == Alloc(heap)
     IN  IF IsSome(parsed)
         THEN LET h == [heap EXCEPT ![g] = parsed]
                  r == AfterLoad(tk, g, h)
              IN  Step(t, tk.pid, [task EXCEPT ![t] = r.tk], r.h,
                       StoreInCache(projects, tk.pid, g), files, saved,
                       last_saved)
         ELSE LET r == AfterLoad(tk, 0, heap) IN Local(t, r.tk, r.h)

(***************************************************************************)
(* save_project_geodata (storage) after its first await; the handlers turn *)
(* its False into a 500.                                                   *)
(***************************************************************************)
\* aiofiles.open(file_path, 'w'): the file is created or cut to nothing
SaveOpen(t) ==
  /\ task[t].pc = "open"
  /\ Step(t, task[t].pid,
          [task EXCEPT ![t] = [@ EXCEPT !.pc = "write", !.unlinked = FALSE]],
          heap, projects, [files EXCEPT ![task[t].pid] = Truncated], saved,
          last_saved)

\* open raises OSError: the file is as it was
SaveOpenFails(t) ==
  /\ task[t].pc = "open"
  /\ Local(t, Fail(task[t], "OSError"), heap)

\* f.write(json.dumps(data, ...)): json.dumps raises before anything is
\* written, or the text is written
SaveWrite(t) ==
  /\ task[t].pc = "write"
  /\ LET tk == task[t]
         text == tk.text
     IN  IF IsSome(text)
         THEN Step(t, tk.pid, [task EXCEPT ![t] = [tk EXCEPT !.pc = "commit"]],
                   heap, projects,
                   IF tk.unlinked THEN files
                   ELSE [files EXCEPT ![tk.pid] = JsonFile(Get(text))],
                   IF tk.unlinked THEN saved ELSE [saved EXCEPT ![tk.pid] = TRUE],
                   IF tk.unlinked THEN last_saved
                   ELSE [last_saved EXCEPT ![tk.pid] = text])
         ELSE Local(t, Fail(tk, "TypeError"), heap)

\* write raises OSError: a part of the text is in the file
SaveWriteFails(t) ==
  /\ task[t].pc = "write"
  /\ IsSome(task[t].text)
  /\ Step(t, task[t].pid, [task EXCEPT ![t] = Fail(@, "OSError")], heap,
          projects,
          IF task[t].unlinked THEN files
          ELSE [files EXCEPT ![task[t].pid] = Partial],
          saved, last_saved)

\* the file closed: self.projects[project_id] = geodata; return True
SaveCommit(t) ==
  /\ task[t].pc = "commit"
  /\ LET tk == task[t]
     IN  Step(t, tk.pid,
              [task EXCEPT ![t] = [tk EXCEPT !.pc = "done", !.status = "ok"]],
              heap, StoreInCache(projects, tk.pid, tk.geodata), files,
              [saved EXCEPT ![tk.pid] = TRUE],
              [last_saved EXCEPT ![tk.pid] = tk.text])

\* The caller cancels the request while it is suspended on file I/O: the
\* await raises CancelledError, which is not an Exception, so neither
\* `except Exception` catches it and it leaves the handler.  The I/O call
\* awaited has not taken effect (had it, the handler would be at its next
\* await).
Cancel(t) ==
  /\ task[t].pc \in {"read", "parse", "open", "write", "commit"}
  /\ Local(t, [task[t] EXCEPT !.pc = "done", !.status = "cancelled",
                              !.raised = "CancelledError",
                              !.content = Absent], heap)

\* the response is sent; the handler's locals are gone
Return(t) ==
  /\ task[t].pc = "done"
  /\ LET tks == [task EXCEPT ![t] = Idle]
     IN  /\ task' = RenumberedTasks(projects, tks)
         /\ projects' = RenumberedCache(projects, tks)
         /\ heap' = RenumberedHeap(heap, projects, tks)
  /\ before' = [before EXCEPT ![t] = NoBefore]
  /\ prior' = [prior EXCEPT ![t] = NoPrev]
  /\ solo' = [solo EXCEPT ![t] = TRUE]
  /\ UNCHANGED <<files, clients, saved, last_saved, prev, lifecycle,
                 stateless>>

\* the service process restarts (GeoDataStorage.__init__): requests in
\* flight and the cache are gone, the files stay; the interpreter draws the
\* seed of its str hashes anew
Restart ==
  /\ projects' = [p \in ProjectIds |-> 0]
  /\ heap' = [o \in ObjIds |-> None]
  /\ task' = [t \in Tasks |-> Idle]
  /\ solo' = [t \in Tasks |-> TRUE]
  /\ before' = [t \in Tasks |-> NoBefore]
  /\ prev' = [t \in Tasks |-> NoPrev]
  /\ prior' = [t \in Tasks |-> NoPrev]
  /\ hashseed' \in clients.seeds
  /\ calc' = NoCalc
  /\ UNCHANGED <<files, clients, saved, last_saved, lifecycle, geocoded>>

Next ==
  \/ \E t \in clients.tasks : \E p \in clients.projects[t] :
       GetProjectGeodata(t, p)
  \/ \E t \in clients.tasks : \E p \in clients.projects[t] :
       \E pt \in clients.points[t] : AddProjectPoint(t, p, pt)
  \/ \E t \in clients.tasks : \E p \in clients.projects[t] :
       \E poly \in clients.polygons : AddProjectPolygon(t, p, poly)
  \/ \E t \in clients.tasks : \E p \in clients.projects[t] :
       \E body \in clients.bodies : SaveProjectGeodata(t, p, body)
  \/ \E t \in clients.tasks : \E p \in clients.projects[t] :
       DeleteProjectGeodata(t, p)
  \/ \E t \in clients.tasks : \E p \in clients.projects[t] :
       \E format \in clients.formats : ExportProjectGeodata(t, p, format)
  \/ \E t \in Tasks : LoadRead(t)
  \/ \E t \in Tasks : LoadFinish(t)
  \/ \E t \in Tasks : SaveOpen(t)
  \/ \E t \in Tasks : SaveOpenFails(t)
  \/ \E t \in Tasks : SaveWrite(t)
  \/ \E t \in Tasks : SaveWriteFails(t)
  \/ \E t \in Tasks : SaveCommit(t)
  \/ \E t \in Tasks : Cancel(t)
  \/ \E t \in Tasks : Return(t)
  \/ Restart

\* two handlers at a time on one project
Spec == Init /\ [][Next]_vars

(***************************************************************************)
(* Calls of the functions that keep no state: the static methods of        *)
(* GeometryService, and POST /geocode.  Each leaves the store as it is.    *)
(***************************************************************************)
store ==
  <<projects, files, heap, task, clients, saved, last_saved, solo, before,
    prev, prior, lifecycle>>

\* GeometryService.haversine_distance(a.latitude, a.longitude, b.latitude,
\* b.longitude)
HaversineDistance(a, b) ==
  /\ calc' = IF HaversineRaises(a.latitude, a.longitude,
                                b.latitude, b.longitude)
             THEN Raised("distance", <<a, b>>, "ValueError")
             ELSE Returned("distance", <<a, b>>,
                           haversine_distance(a.latitude, a.longitude,
                                              b.latitude, b.longitude))
  /\ UNCHANGED <<store, hashseed, geocoded>>

\* GeometryService.calculate_polygon_area(coordinates)
CalculatePolygonArea(cs) ==
  /\ calc' = Returned("area", cs, calculate_polygon_area(cs))
  /\ UNCHANGED <<store, hashseed, geocoded>>

\* GeometryService.calculate_bounds(coordinates)
CalculateBounds(cs) ==
  /\ calc' = Returned("bounds", cs, calculate_bounds(cs))
  /\ UNCHANGED <<store, hashseed, geocoded>>

\* POST /geocode (lines 420-438): a limit outside 1..10 is answered 422 and
\* the handler does not run; else the candidates are the response.  Nothing
\* in geocode_address raises.
GeocodeAddress(address, limit) ==
  IF ValidGeocodeRequest(limit)
  THEN LET results == geocode_address(hashseed, address, limit)
       IN  /\ calc' = Returned("geocode", <<address, limit>>, results)
           /\ geocoded' = IF geocoded[address] = None
                          THEN [geocoded EXCEPT ![address] = Some(results)]
                          ELSE geocoded
           /\ UNCHANGED <<store, hashseed>>
  ELSE /\ calc' = Raised("geocode", <<address, limit>>, "invalid")
       /\ UNCHANGED <<store, hashseed, geocoded>>

NextGeometry ==
  \/ \E a \in PlaceInputs : \E b \in PlaceInputs : HaversineDistance(a, b)
  \/ \E cs \in RingInputs : CalculatePolygonArea(cs)
  \/ \E cs \in RingInputs : CalculateBounds(cs)
  \/ \E address \in AddressInputs : \E limit \in LimitInputs :
       GeocodeAddress(address, limit)
  \/ Restart

\* callers of the functions that keep no state, in a process that restarts
SpecGeometry == InitGeometry /\ [][NextGeometry]_vars

\* one request after another, every input
SpecSerial == InitSerial /\ [][Next]_vars

\* two handlers at a time, on two projects
SpecProjects == InitProjects /\ [][Next]_vars

(***************************************************************************)
(* Properties.                                                             *)
(***************************************************************************)
\* the request of task t is answered, and no other task took a step on its
\* project since the request began
Answered(t, ops) == task[t].pc = "done" /\ task[t].op \in ops /\ solo[t]

\* the request that task t completed just before the answered one was a
\* successful op on the same project, with nothing on that project between
Follows(t, op) == prior[t].op = op /\ prior[t].pid = task[t].pid

\* the aggregate task t holds
Held(t) == Get(heap[task[t].geodata])

\* the derived fields of g are what its coordinates give
FreshBounds(g) ==
  IF AllCoordinates(g) = <<>> THEN g.bounds = None /\ g.center = None
  ELSE /\ g.bounds = Some(calculate_bounds(AllCoordinates(g)))
       /\ g.center = Some(calculate_center(AllCoordinates(g)))

FreshMembers(g) ==
  /\ \A i \in 1..Len(g.polygons) :
       g.polygons[i].area_sqm =
         Some(calculate_polygon_area(
                IF g.polygons[i].coordinates = <<>> THEN <<>>
                ELSE g.polygons[i].coordinates[1]))
  /\ \A i \in 1..Len(g.lines) :
       g.lines[i].length_m = Some(calculate_line_length(g.lines[i].coordinates))

\* C1: whenever a load has returned an aggregate, the cache entry of the
\* project is the record that the last successful save of it wrote.
CacheIsLastSave ==
  \A t \in Tasks :
    Answered(t, {"get"}) /\ task[t].status = "ok"
      => Cached(projects, heap, task[t].pid) = last_saved[task[t].pid]

\* C2: when a save, an append of a point or an append of a polygon fails,
\* the cache holds for the project what it held when the operation began.
FailedSaveLeavesCache ==
  \A t \in Tasks :
    Answered(t, {"save", "point", "polygon"}) /\ task[t].status = "error"
      => Cached(projects, heap, task[t].pid) = before[t].cache

\* C3: the file of a project is never empty and never a part of a record,
\* and no load reads such a text.
DurableRecordAtomic ==
  /\ \A p \in ProjectIds : files[p].kind \in {"absent", "json"}
  /\ \A t \in Tasks :
       task[t].pc = "parse" => task[t].content.kind \in {"absent", "json"}

\* C4: a load that follows a successful save returns an aggregate whose
\* areas, lengths, bounds and center are what its coordinates give: none
\* where there are no coordinates, whatever the caller of save sent.
LoadedDerivedFieldsFresh ==
  \A t \in Tasks :
    Answered(t, {"get"}) /\ Follows(t, "save") /\ task[t].status = "ok"
      => FreshBounds(Held(t)) /\ FreshMembers(Held(t))

\* C5: the bounds and center of every aggregate that has coordinates, in the
\* cache and in a file, are the bounds and center of its coordinates.
StoredBoundsCoverMembers ==
  \A p \in ProjectIds :
    /\ projects[p] # 0 /\ AllCoordinates(Get(heap[projects[p]])) # <<>>
         => FreshBounds(Get(heap[projects[p]]))
    /\ files[p].kind = "json" /\ AllCoordinates(Get(files[p].data)) # <<>>
         => FreshBounds(Get(files[p].data))

\* C6: a load that follows a successful save by the same task, with nothing
\* else on the project between, returns the aggregate that the save wrote.
ReadYourWrites ==
  \A t \in Tasks :
    Answered(t, {"get"}) /\ Follows(t, "save")
      => task[t].status = "ok" /\ Some(Held(t)) = prior[t].text

ReadYourWritesCase ==
  \E t \in Tasks :
    /\ Answered(t, {"get"}) /\ Follows(t, "save")
    /\ task[t].status = "ok" /\ Some(Held(t)) = prior[t].text

\* C7: every delete succeeds, and a delete that follows a successful delete
\* of the same project, with nothing else on the project between, leaves the
\* cache and the files as they are.
DeleteIdempotent ==
  [][\A t \in Tasks :
       task[t].pc = "idle" /\ task'[t].pc = "done" /\ task'[t].op = "delete"
         => /\ task'[t].status = "ok"
            /\ prev[t].op = "delete" /\ prev[t].pid = task'[t].pid
                 => projects' = projects /\ files' = files /\ heap' = heap]_vars

DeleteTwiceCase ==
  \E t \in Tasks :
    Answered(t, {"delete"}) /\ Follows(t, "delete") /\ task[t].status = "ok"

\* C8: when a delete has succeeded the project has no cache entry and no
\* file, and a load that follows it returns not-found.
DeleteRemovesBothTiers ==
  \A t \in Tasks :
    /\ Answered(t, {"delete"}) /\ task[t].status = "ok"
         => projects[task[t].pid] = 0 /\ files[task[t].pid] = Absent
    /\ Answered(t, {"get"}) /\ Follows(t, "delete")
         => task[t].status = "not_found"

DeleteOfCachedAndStoredCase ==
  \E t \in Tasks :
    /\ Answered(t, {"delete"}) /\ task[t].status = "ok"
    /\ before[t].cache # None /\ ~before[t].no_file

\* C9: a load of a project that no save has written since it was last
\* deleted (or ever) returns not-found, unless it is cancelled before it
\* returns, and leaves the project with no cache entry and no record.
LoadOfUnsavedNotFound ==
  \A t \in Tasks :
    Answered(t, {"get"}) /\ ~saved[task[t].pid]
      => /\ task[t].raised # "CancelledError" => task[t].status = "not_found"
         /\ projects[task[t].pid] = 0
         /\ files[task[t].pid].kind # "json"
         /\ before[t].no_file => files[task[t].pid] = Absent

LoadOfUnsavedCase ==
  \E t \in Tasks :
    /\ Answered(t, {"get"}) /\ ~saved[task[t].pid]
    /\ task[t].status = "not_found" /\ files[task[t].pid].kind = "empty"

\* C10: with one request at a time and no I/O error, an append of a point
\* succeeds and leaves, in the cache and in the file, the points that were
\* there before it followed by the new point; on a project with no cache
\* entry and no file it leaves exactly the new point.
AppendsAccumulate ==
  \A t \in Tasks :
    Answered(t, {"point"}) /\ task[t].raised # "OSError"
      /\ (before[t].cache = None => before[t].no_file)
      => LET p == task[t].pid
             was == IF before[t].cache = None THEN <<>>
                    ELSE Get(before[t].cache).points
             now == Append(was, Get(task[t].point))
         IN  /\ task[t].status = "ok"
             /\ projects[p] # 0 /\ Get(heap[projects[p]]).points = now
             /\ files[p].kind = "json" /\ Get(files[p].data).points = now

\* C11: two appends of a point to the same project, each begun before the
\* other has saved (each holds an aggregate of its own with its one point)
\* and neither hit by an I/O error, both report success, and the aggregate
\* left in the cache and in the file is that of one of them: it has one of
\* the two points.
ConcurrentAppendsLoseOne ==
  \A t, u \in Tasks :
    /\ t # u /\ task[t].pc = "done" /\ task[u].pc = "done"
    /\ task[t].op = "point" /\ task[u].op = "point"
    /\ task[t].pid = task[u].pid
    /\ task[t].raised # "OSError" /\ task[u].raised # "OSError"
    /\ task[t].geodata # task[u].geodata
    /\ Len(Held(t).points) = 1 /\ Len(Held(u).points) = 1
    => LET p == task[t].pid
       IN  /\ task[t].status = "ok" /\ task[u].status = "ok"
           /\ projects[p] \in {task[t].geodata, task[u].geodata}
           /\ files[p].kind = "json"
           /\ Get(files[p].data).points \in {Held(t).points, Held(u).points}

\* C12: a step of a request on one project leaves the cache entry and the
\* file of every other project as they are; and with requests in flight on
\* other projects only, a request has the outcome it has alone: a load after
\* a save returns what was saved, after a delete not-found, and not-found
\* for a project never saved.
ProjectsIndependent ==
  [][/\ \A t \in Tasks :
          task'[t].pc # task[t].pc /\ task'[t].pc # "idle"
            => \A q \in ProjectIds \ {task'[t].pid} :
                 /\ Cached(projects', heap', q) = Cached(projects, heap, q)
                 /\ files'[q] = files[q]
     /\ ReadYourWrites /\ DeleteRemovesBothTiers /\ LoadOfUnsavedNotFound]_vars

\* a delete on one project is answered while a save is in flight on another
\* project that has a record and a cache entry
ProjectsIndependentCase ==
  \E t, u \in Tasks :
    /\ Answered(t, {"delete"}) /\ before[t].cache # None
    /\ task[u].pc \in {"write", "commit"} /\ task[u].pid # task[t].pid
    /\ projects[task[u].pid] # 0 /\ files[task[u].pid].kind = "json"

\* C13: when a save, an append of a point or an append of a polygon is
\* cancelled while suspended on file I/O, the cache holds for the project
\* what it held when the operation began.
CancelLeavesCache ==
  \A t \in Tasks :
    Answered(t, {"save", "point", "polygon"}) /\ task[t].status = "cancelled"
      => Cached(projects, heap, task[t].pid) = before[t].cache

\* C14: a load, or an append of a point or a polygon, of a project that is
\* not cached and whose file cannot be parsed reports an error, and the
\* append builds no aggregate.
LoadFailureSurfaced ==
  \A t \in Tasks :
    /\ Answered(t, {"get", "point", "polygon"})
    /\ before[t].cache = None /\ before[t].unreadable
    /\ task[t].raised # "CancelledError"
    => task[t].status = "error" /\ task[t].geodata = 0

\* the coordinates of the points of g, of the first ring of each of its
\* polygons, and of its lines
RECURSIVE ExteriorRings(_)
ExteriorRings(polys) ==
  IF polys = <<>> THEN <<>>
  ELSE (IF Head(polys).coordinates = <<>> THEN <<>>
        ELSE Head(polys).coordinates[1]) \o ExteriorRings(Tail(polys))

ExteriorCoordinates(g) ==
  PointCoordinates(g.points) \o ExteriorRings(g.polygons)
    \o LineCoordinates(g.lines)

\* C15: the bounds and center that a save gives an aggregate are those of
\* the coordinates of its points, of the first ring of each polygon and of
\* its lines: the later rings of a polygon, its holes, do not count.
BoundsFromExteriorRings ==
  \A t \in Tasks :
    /\ task[t].op = "save" /\ task[t].geodata # 0
    /\ ExteriorCoordinates(Held(t)) # <<>>
    => /\ Held(t).bounds = Some(calculate_bounds(ExteriorCoordinates(Held(t))))
       /\ Held(t).center = Some(calculate_center(ExteriorCoordinates(Held(t))))

\* longitude first, then latitude
LonLat(cs) ==
  [i \in 1..Len(cs) |-> <<cs[i].longitude, cs[i].latitude>>]

\* fc has one feature for each point, then each polygon, then each line of
\* g, in the order of g, each with its geometry in longitude, latitude
FeaturesOf(g, fc) ==
  LET np == Len(g.points)
      ng == Len(g.polygons)
  IN  /\ Len(fc.features) = np + ng + Len(g.lines)
      /\ \A i \in 1..Len(fc.features) : fc.features[i].type = "Feature"
      /\ \A i \in 1..np :
           fc.features[i].geometry =
             [type |-> "Point",
              coordinates |-> LonLat(<<g.points[i].coordinates>>)[1]]
      /\ \A i \in 1..ng :
           fc.features[np + i].geometry =
             [type |-> "Polygon",
              coordinates |-> [r \in 1..Len(g.polygons[i].coordinates) |->
                                 LonLat(g.polygons[i].coordinates[r])]]
      /\ \A i \in 1..Len(g.lines) :
           fc.features[np + ng + i].geometry =
             [type |-> "LineString",
              coordinates |-> LonLat(g.lines[i].coordinates)]

\* C16: the feature collection made of an aggregate, and the one an export
\* returns, has exactly one feature per point, polygon and line, points
\* first, then polygons, then lines, each in the aggregate's order, and
\* every coordinate in it is [longitude, latitude].
ExportOneFeaturePerMember ==
  /\ \A o \in ObjIds :
       heap[o] # None
         => FeaturesOf(Get(heap[o]),
                       ToGeoJson(Get(heap[o]).project_id, Get(heap[o])))
  /\ \A t \in Tasks :
       Answered(t, {"export"}) /\ task[t].status = "ok"
         => FeaturesOf(Held(t), Get(task[t].response))

\* an export has returned a point and a polygon
ExportOfPointAndPolygonCase ==
  \E t \in Tasks :
    /\ Answered(t, {"export"}) /\ task[t].status = "ok"
    /\ Len(Held(t).points) = 1 /\ Len(Held(t).polygons) = 1
    /\ Len(Get(task[t].response).features) = 2
    /\ Get(task[t].response).features[1].geometry.coordinates = <<4, 2>>

\* C17: in the feature collection an export returns, the properties of each
\* feature have the id of its member, those of a polygon its area_sqm, those
\* of a line its length_m, whatever keys the member's own properties have,
\* and the properties of the collection are the project id, the bounds and
\* the center of the aggregate.
ExportPropertiesOfMembers ==
  \A t \in Tasks :
    Answered(t, {"export"}) /\ task[t].status = "ok"
      => LET g == Held(t)
             fc == Get(task[t].response)
             np == Len(g.points)
             ng == Len(g.polygons)
         IN  /\ \A i \in 1..np :
                  fc.features[i].properties["id"] = g.points[i].id
             /\ \A i \in 1..ng :
                  /\ fc.features[np + i].properties["id"] = g.polygons[i].id
                  /\ fc.features[np + i].properties["area_sqm"]
                       = g.polygons[i].area_sqm
             /\ \A i \in 1..Len(g.lines) :
                  /\ fc.features[np + ng + i].properties["id"] = g.lines[i].id
                  /\ fc.features[np + ng + i].properties["length_m"]
                       = g.lines[i].length_m
             /\ fc.properties = [project_id |-> task[t].pid,
                                 bounds |-> g.bounds, center |-> g.center]

\* the names that are geojson in some case of letters
GeoJsonNames == {"geojson", "GeoJSON"}

\* C18: no step of an export changes the file of any project; an export of
\* a project that has no cache entry and no file reports not-found; an
\* export of a project that is there reports unsupported-format for a
\* format name that is not geojson in any case of letters, and succeeds for
\* one that is.
ExportFormatChecked ==
  [][/\ \A t \in Tasks :
          task'[t].pc # task[t].pc /\ task'[t].op = "export" => files' = files
     /\ \A t \in Tasks :
          Answered(t, {"export"}) /\ task[t].raised # "CancelledError"
            => /\ projects[task[t].pid] # 0
                    => task[t].status = IF task[t].format \in GeoJsonNames
                                        THEN "ok" ELSE "unsupported"
               /\ projects[task[t].pid] = 0 /\ files[task[t].pid] = Absent
                    => task[t].status = "not_found"]_vars

\* an export of a project that is there, as kml
ExportAsKmlCase ==
  \E t \in Tasks :
    /\ Answered(t, {"export"}) /\ projects[task[t].pid] # 0
    /\ task[t].format = "kml" /\ task[t].status = "unsupported"

\* C18 as stated: an export of a project that is there reports
\* unsupported-format for every format name other than geojson.
ExportOnlyAsGeojson ==
  \A t \in Tasks :
    /\ Answered(t, {"export"}) /\ task[t].raised # "CancelledError"
    /\ projects[task[t].pid] # 0 /\ task[t].format # "geojson"
    => task[t].status = "unsupported"

\* every coordinate of g is on the globe, and so is its center
OnGlobe(g) ==
  /\ \A i \in 1..Len(AllCoordinates(g)) :
       /\ AllCoordinates(g)[i].latitude \in (-90)..90
       /\ AllCoordinates(g)[i].longitude \in (-180)..180
  /\ g.center # None
       => LET c == Get(g.center)
          IN  /\ -90 * c.latitude.den <= c.latitude.num
              /\ c.latitude.num <= 90 * c.latitude.den
              /\ -180 * c.longitude.den <= c.longitude.num
              /\ c.longitude.num <= 180 * c.longitude.den

\* C19: every aggregate that a handler holds, that is cached or that is in
\* a file has its coordinates and its center within latitude -90..90 and
\* longitude -180..180; a request with a point outside is rejected, and the
\* cache and the file are as they were before it.
CoordinatesInRange ==
  /\ \A o \in ObjIds : heap[o] # None => OnGlobe(Get(heap[o]))
  /\ \A p \in ProjectIds :
       files[p].kind = "json" => OnGlobe(Get(files[p].data))
  /\ \A t \in Tasks :
       /\ task[t].op = "point"
       /\ ~ (/\ Get(task[t].point).coordinates.latitude \in (-90)..90
             /\ Get(task[t].point).coordinates.longitude \in (-180)..180)
       => /\ task[t].pc = "done" /\ task[t].status = "invalid"
          /\ task[t].geodata = 0
          /\ solo[t] => /\ Cached(projects, heap, task[t].pid) = before[t].cache
                        /\ before[t].no_file => files[task[t].pid] = Absent

\* a point outside the ranges was sent to a project that is cached
PointOutOfRangeCase ==
  \E t \in Tasks :
    /\ Answered(t, {"point"}) /\ task[t].status = "invalid"
    /\ Get(task[t].point).coordinates.latitude = 91
    /\ projects[task[t].pid] # 0

\* no ring of a polygon of g has fewer than 3 coordinates, and no line of g
\* fewer than 2
WellFormed(g) ==
  /\ \A i \in 1..Len(g.polygons) :
       \A r \in 1..Len(g.polygons[i].coordinates) :
         Len(g.polygons[i].coordinates[r]) >= 3
  /\ \A i \in 1..Len(g.lines) : Len(g.lines[i].coordinates) >= 2

\* C20: an append of a polygon that has a ring of fewer than 3 coordinates
\* is rejected and builds no aggregate, and no aggregate in the cache or in
\* a file has such a ring, or a line of fewer than 2 coordinates.
ShortRingsRejected ==
  /\ \A t \in Tasks :
       task[t].op = "polygon"
         /\ (\E r \in 1..Len(Get(task[t].polygon).coordinates) :
               Len(Get(task[t].polygon).coordinates[r]) < 3)
         => /\ task[t].pc = "done" /\ task[t].status = "invalid"
            /\ task[t].geodata = 0
  /\ \A p \in ProjectIds :
       /\ projects[p] # 0 => WellFormed(Get(heap[projects[p]]))
       /\ files[p].kind = "json" => WellFormed(Get(files[p].data))

\* C21: calculate_bounds of a sequence that is not empty returns the
\* greatest latitude as north, the least as south, the greatest longitude
\* as east and the least as west, so north >= south and east >= west; of an
\* empty sequence it raises EmptyGeometryError and returns no value.
BoundsOrEmptyGeometryError ==
  calc.op = "bounds"
    => IF calc.args = <<>>
       THEN calc.status = "EmptyGeometryError" /\ calc.result = None
       ELSE /\ calc.status = "ok"
            /\ LET cs == calc.args
                   b == Get(calc.result)
               IN  /\ \A i \in 1..Len(cs) :
                        /\ b.south <= cs[i].latitude
                        /\ cs[i].latitude <= b.north
                        /\ b.west <= cs[i].longitude
                        /\ cs[i].longitude <= b.east
                   /\ \E i \in 1..Len(cs) : cs[i].latitude = b.north
                   /\ \E i \in 1..Len(cs) : cs[i].latitude = b.south
                   /\ \E i \in 1..Len(cs) : cs[i].longitude = b.east
                   /\ \E i \in 1..Len(cs) : cs[i].longitude = b.west
                   /\ b.north >= b.south /\ b.east >= b.west

\* C22: for any two valid places the distance is returned (the call does
\* not raise), it is the distance from the second place to the first, and
\* it is 0.0 when the two are the same place.  (The value returned is R * 2
\* * atan2 of two square roots: it has no sign that could be negative.)
DistanceSymmetric ==
  calc.op = "distance"
    => LET a == calc.args[1]
           b == calc.args[2]
       IN  ValidCoordinates(a) /\ ValidCoordinates(b)
             => /\ calc.status = "ok"
                /\ Get(calc.result)
                     = haversine_distance(b.latitude, b.longitude,
                                          a.latitude, a.longitude)
                /\ a = b => Get(calc.result) = ZeroDistance

\* the ring begun at its second coordinate, and the ring the other way round
Rotated(cs) == Tail(cs) \o <<Head(cs)>>
Reversed(cs) == [i \in 1..Len(cs) |-> cs[Len(cs) + 1 - i]]

\* C23: calculate_polygon_area returns 0.0 for a ring of fewer than 3
\* coordinates; for a ring of 3 or more it returns a value that is not
\* negative, and the very same value for the ring begun at another of its
\* coordinates and for the ring the other way round.
AreaOfRingUnchanged ==
  calc.op = "area"
    => LET cs == calc.args
           area == Get(calc.result)
       IN  IF Len(cs) < 3 THEN area = ZeroArea
           ELSE /\ area.twice >= 0
                /\ area = calculate_polygon_area(Rotated(cs))
                /\ area = calculate_polygon_area(Reversed(cs))

\* C24: a save of a valid aggregate that no I/O error hits and nobody
\* cancels succeeds, and the aggregate it stored, saved once more as a load
\* returns it, is stored with the same members and the same areas, lengths,
\* bounds and center; and an export returns the feature collection of the
\* aggregate it was given, every time.
RecomputeIdempotent ==
  \A t \in Tasks :
    /\ Answered(t, {"save"}) /\ task[t].status # "invalid"
       /\ task[t].raised \notin {"OSError", "CancelledError"}
         => /\ task[t].status = "ok"
            /\ Recompute(task[t].pid, Held(t)) = Held(t)
    /\ Answered(t, {"export"}) /\ task[t].status = "ok"
         => Get(task[t].response) = ToGeoJson(task[t].pid, Held(t))

\* the fraction r is within -bound..bound
RatWithin(r, bound) == -bound * r.den <= r.num /\ r.num <= bound * r.den

\* the candidates are at least 1 and at most limit, each at a valid place
CandidatesWithin(results, limit) ==
  /\ Len(results) >= 1 /\ Len(results) <= limit
  /\ \A i \in 1..Len(results) :
       /\ RatWithin(results[i].coordinates.latitude, 90)
       /\ RatWithin(results[i].coordinates.longitude, 180)

\* C25: a geocoding with a limit outside 1..10 is rejected; one with a
\* limit within returns, without an error, at least 1 and at most limit
\* candidates, each with a latitude in -90..90 and a longitude in
\* -180..180, and they are the candidates that the first geocoding of the
\* same address returned.
GeocodeDeterministic ==
  calc.op = "geocode"
    => IF calc.args[2] \in 1..10
       THEN /\ calc.status = "ok"
            /\ CandidatesWithin(Get(calc.result), calc.args[2])
            /\ geocoded[calc.args[1]] = calc.result
       ELSE calc.status = "invalid"

\* C26: a load that is not cancelled, of a project of which a save has
\* returned success and no delete has since, returns the aggregate and not
\* not-found, whatever saves, appends, loads and exports failed or ran
\* between.
PresentUntilDeleted ==
  \A t \in Tasks :
    /\ Answered(t, {"get"}) /\ task[t].raised # "CancelledError"
    /\ lifecycle[task[t].pid] = "present"
    => task[t].status = "ok"

\* C27: the aggregate that the cache holds for a project changes only in a
\* step that completes a save or an append with success, in a delete, in a
\* load that fills an empty entry from the file, and in a restart of the
\* process: an append shows nothing to the loads of other tasks before its
\* save has succeeded.
CacheWrittenBySaveAndDelete ==
  [][\A p \in ProjectIds :
       Cached(projects', heap', p) # Cached(projects, heap, p)
         => \/ \E t \in Tasks :
                 /\ task'[t].pid = p /\ task'[t].pc = "done"
                 /\ task[t].pc # "done" /\ task'[t].status = "ok"
                 /\ task'[t].op \in Writes \cup {"delete"}
            \/ \E t \in Tasks :
                 /\ task[t].pid = p /\ task[t].pc = "parse"
                 /\ task'[t].pc # "parse" /\ projects[p] = 0
            \/ \A q \in ProjectIds : projects'[q] = 0]_vars

\* C28: when a delete of a project has returned success and nothing has
\* run on the project since, the next step of a save, an append or a load
\* of that project that was suspended on I/O when the delete ran leaves the
\* project with no cache entry and no file.
DeleteIsFinal ==
  [][\A t, u \in Tasks :
       /\ t # u /\ Answered(t, {"delete"}) /\ task[t].status = "ok"
       /\ task[u].pid = task[t].pid
       /\ task[u].pc \in {"read", "parse", "open", "write", "commit"}
       /\ task'[u].pc # task[u].pc /\ task'[u].pc # "idle"
       => /\ projects'[task[t].pid] = 0
          /\ files'[task[t].pid] = Absent]_vars

\* every member of old is in new, at the same place of its list
KeepsMembers(old, new) ==
  /\ Len(old.points) <= Len(new.points)
  /\ Len(old.polygons) <= Len(new.polygons)
  /\ Len(old.lines) <= Len(new.lines)
  /\ \A i \in 1..Len(old.points) : new.points[i] = old.points[i]
  /\ \A i \in 1..Len(old.polygons) : new.polygons[i] = old.polygons[i]
  /\ \A i \in 1..Len(old.lines) : new.lines[i] = old.lines[i]

\* C29: with one request at a time, an append of a point or a polygon that
\* no I/O error of its save hits and nobody cancels succeeds, and the
\* aggregate it leaves has every point, polygon and line that the project's
\* record had when the append began.
SequentialAppendsKeepMembers ==
  \A t \in Tasks :
    /\ Answered(t, {"point", "polygon"}) /\ task[t].status # "invalid"
    /\ task[t].raised \notin {"OSError", "CancelledError"}
    => /\ task[t].status = "ok"
       /\ projects[task[t].pid] # 0
       /\ before[t].record # None
            => KeepsMembers(Get(before[t].record),
                            Get(heap[projects[task[t].pid]]))

\* C30: whenever no request is in flight, every project that has a cache
\* entry has a file that holds a record, and the record has the points,
\* polygons and lines of the cached aggregate.
QuiescentConsistency ==
  (\A t \in Tasks : task[t].pc \in {"idle", "done"})
    => \A p \in ProjectIds :
         projects[p] # 0
           => /\ files[p].kind = "json"
              /\ LET g == Get(heap[projects[p]])
                     d == Get(files[p].data)
                 IN  /\ d.points = g.points
                     /\ d.polygons = g.polygons
                     /\ d.lines = g.lines

=============================================================================
